---------------------------- MODULE Spec2Model ----------------------------
(***************************************************************************)
(* winbox-stats: the collector (src/collect.rs) that samples CPU, RAM and  *)
(* per-mount disk usage into a per-host, per-month SQLite file, and the    *)
(* grapher (src/graph/plot.rs) that reads every *.sqlite file of the       *)
(* working directory back and renders one chart per metric.                *)
(*                                                                         *)
(* Strings on which the code computes (mount points, labels, timestamps,   *)
(* file stems, column names) are sequences of one-character strings.       *)
(* Floating-point sample values are whole numbers of percent.              *)
(***************************************************************************)
EXTENDS Integers, Sequences, FiniteSets, TLC

VARIABLES
    mp, label,                                   \* label_for_mount_point: input, result
    host, disks, clock, pc, db_name, ts, di,     \* run_collect
    files, printed, runs,
    tsAt, files0, inserted, tickWrites,          \* history of run_collect
    cwd, tz, dqs,                                \* the graph run's environment
    gpc, gi, ti, tables, outs, images, pts, gerr \* plot_all_sqlite_in_cwd

labelVars   == <<mp, label>>
collectVars == <<host, disks, clock, pc, db_name, ts, di, files, printed, runs,
                 tsAt, files0, inserted, tickWrites>>
graphVars   == <<cwd, tz, dqs, gpc, gi, ti, tables, outs, images, pts, gerr>>
vars == <<labelVars, collectVars, graphVars>>

None == <<"none">>

---------------------------------------------------------------------------
(* Characters and strings *)

Ascii ==
    <<" ", "!", "\"", "#", "$", "%", "&", "'", "(", ")", "*", "+", ",", "-", ".", "/",
      "0", "1", "2", "3", "4", "5", "6", "7", "8", "9", ":", ";", "<", "=", ">", "?",
      "@", "A", "B", "C", "D", "E", "F", "G", "H", "I", "J", "K", "L", "M", "N", "O",
      "P", "Q", "R", "S", "T", "U", "V", "W", "X", "Y", "Z", "[", "\\", "]", "^", "_",
      "BACKQUOTE", "a", "b", "c", "d", "e", "f", "g", "h", "i", "j", "k", "l", "m", "n", "o",
      "p", "q", "r", "s", "t", "u", "v", "w", "x", "y", "z">>

\* The code point of each character.
CodeOf == [c \in {Ascii[i] : i \in 1..Len(Ascii)} |->
             31 + (CHOOSE i \in 1..Len(Ascii) : Ascii[i] = c)]

Code(c) == CodeOf[c]

Chr(n) == Ascii[n - 31]

UpperOf == [c \in DOMAIN CodeOf |->
              IF CodeOf[c] >= CodeOf["a"] /\ CodeOf[c] <= CodeOf["z"]
              THEN Chr(CodeOf[c] - 32) ELSE c]

LowerOf == [c \in DOMAIN CodeOf |->
              IF CodeOf[c] >= CodeOf["A"] /\ CodeOf[c] <= CodeOf["Z"]
              THEN Chr(CodeOf[c] + 32) ELSE c]

to_ascii_uppercase(c) == UpperOf[c]

to_ascii_lowercase(c) == LowerOf[c]

to_uppercase(s) == [i \in 1..Len(s) |-> to_ascii_uppercase(s[i])]

to_lowercase(s) == [i \in 1..Len(s) |-> to_ascii_lowercase(s[i])]

eq_ignore_ascii_case(a, b) == to_lowercase(a) = to_lowercase(b)

\* str::replace(c, ""): every occurrence of the character removed.
StripChar(s, c) == SelectSeq(s, LAMBDA x : x # c)

\* str::split on a set of separator characters: the segments, empty ones included.
RECURSIVE SplitOn(_, _)
SplitOn(s, seps) ==
    IF \A i \in 1..Len(s) : s[i] \notin seps
    THEN <<s>>
    ELSE LET k == CHOOSE i \in 1..Len(s) :
                      s[i] \in seps /\ \A j \in 1..(i - 1) : s[j] \notin seps
         IN <<SubSeq(s, 1, k - 1)>> \o SplitOn(SubSeq(s, k + 1, Len(s)), seps)

\* Byte-wise comparison of two strings (memcmp, then length): a < b.
RECURSIVE StrLess(_, _)
StrLess(a, b) ==
    IF b = <<>> THEN FALSE
    ELSE IF a = <<>> THEN TRUE
    ELSE IF a[1] # b[1] THEN Code(a[1]) < Code(b[1])
    ELSE StrLess(Tail(a), Tail(b))

\* Seq(S) up to a length.
SeqsUpTo(S, n) == UNION {[1..k -> S] : k \in 0..n}

---------------------------------------------------------------------------
(* src/collect.rs: label_for_mount_point *)

Suffix_Drive == <<"_", "D", "r", "i", "v", "e">>

label_for_mount_point(m) ==
    IF Len(m) >= 2 /\ m[2] = ":"
    THEN <<to_ascii_uppercase(m[1])>> \o Suffix_Drive
    ELSE LET segs == SelectSeq(SplitOn(m, {"/", "\\"}), LAMBDA s : s # <<>>)
             last == IF segs = <<>> THEN <<"D", "i", "s", "k">> ELSE segs[Len(segs)]
         IN to_uppercase(StripChar(last, ":")) \o Suffix_Drive

---------------------------------------------------------------------------
(* Civil time (chrono): calendar arithmetic and formatting *)

Civil(y, mo, d, h, mi, s) == [y |-> y, mo |-> mo, d |-> d, h |-> h, mi |-> mi, s |-> s]

\* No date-time: what a failed parse returns.
NoCivil == Civil(0, 0, 0, 0, 0, 0)

IsLeap(y) == (y % 4 = 0 /\ y % 100 # 0) \/ y % 400 = 0

DaysInMonth(y, mo) ==
    IF mo = 2 THEN (IF IsLeap(y) THEN 29 ELSE 28)
    ELSE IF mo \in {4, 6, 9, 11} THEN 30 ELSE 31

\* Days from 1970-01-01 to the civil date y-mo-d (proleptic Gregorian).
DaysFromCivil(y, mo, d) ==
    LET yy  == IF mo <= 2 THEN y - 1 ELSE y
        era == yy \div 400
        yoe == yy - era * 400
        mp1 == IF mo > 2 THEN mo - 3 ELSE mo + 9
        doy == (153 * mp1 + 2) \div 5 + d - 1
        doe == yoe * 365 + yoe \div 4 - yoe \div 100 + doy
    IN era * 146097 + doe - 719468

\* The civil date of a day number: the inverse of DaysFromCivil.
CivilOfYearDay(era, yoe, doy, mp1) ==
    [y  |-> yoe + era * 400 + (IF mp1 < 10 THEN 0 ELSE 1),
     mo |-> IF mp1 < 10 THEN mp1 + 3 ELSE mp1 - 9,
     d  |-> doy - (153 * mp1 + 2) \div 5 + 1]

CivilOfYear(era, yoe, doy) == CivilOfYearDay(era, yoe, doy, (5 * doy + 2) \div 153)

CivilOfEra(era, doe, yoe) ==
    CivilOfYear(era, yoe, doe - (365 * yoe + yoe \div 4 - yoe \div 100))

CivilOfDoe(era, doe) ==
    CivilOfEra(era, doe, (doe - doe \div 1460 + doe \div 36524 - doe \div 146096) \div 365)

CivilFromDays(z0) ==
    CivilOfDoe((z0 + 719468) \div 146097, (z0 + 719468) % 146097)

\* NaiveDateTime::and_utc().timestamp(): the civil date-time read as UTC.
EpochOf(c) == DaysFromCivil(c.y, c.mo, c.d) * 86400 + c.h * 3600 + c.mi * 60 + c.s

RECURSIVE Digits(_)
Digits(n) == IF n < 10 THEN <<Chr(Code("0") + n)>>
             ELSE Digits(n \div 10) \o <<Chr(Code("0") + (n % 10))>>

\* {:0w}: decimal, zero-padded to at least w characters.
RECURSIVE Pad(_, _)
Pad(n, w) == LET ds == Digits(n) IN
             IF Len(ds) >= w THEN ds ELSE <<"0">> \o Pad(n, w - 1)

---------------------------------------------------------------------------
(* src/collect.rs: the environment of one host *)

\* The wall clock's readings, in increasing order; clock indexes them.
ClockPool ==
    << Civil(2025, 11, 3, 10, 0, 0),
       Civil(2025, 12, 31, 23, 59, 59),
       Civil(2026, 1, 1, 0, 0, 0) >>

Now == ClockPool[clock]

\* What the OS reports as host name (None would stand for a name that cannot be
\* determined).
HostPool == { <<"p", "c", "1">> }

Disk(m, total, avail) == [mount |-> m, total |-> total, avail |-> avail]

DiskPool ==
    { Disk(<<"/", "m", "n", "t", "/", "d", "a", "t", "a">>, 200, 50),
      Disk(<<"/", "m", "e", "d", "i", "a", "/", "d", "a", "t", "a">>, 100, 100),
      Disk(<<"/", "d", "e", "v">>, 0, 0) }

MaxDisks == 2
MaxRuns == 2

\* Disk lists: every mount point appears once.
DiskLists ==
    { l \in SeqsUpTo(DiskPool, MaxDisks) :
        \A i, j \in 1..Len(l) : i # j => l[i].mount # l[j].mount }

CpuPool == {37}
MemPool == { [total |-> 16, avail |-> 4] }

---------------------------------------------------------------------------
(* src/collect.rs: names and timestamps *)

hostname_upper ==
    to_uppercase(IF host = None THEN <<"U", "N", "K", "N", "O", "W", "N">> ELSE host)

month_prefix_yyyymm == Pad(Now.y, 4) \o Pad(Now.mo, 2)

FormatTimestamp(c) ==
    Pad(c.y, 4) \o <<"-">> \o Pad(c.mo, 2) \o <<"-">> \o Pad(c.d, 2) \o <<" ">>
    \o Pad(c.h, 2) \o <<":">> \o Pad(c.mi, 2) \o <<":">> \o Pad(c.s, 2)

\* now_timestamp with the day first: "%d/%m/%Y %H:%M:%S".
now_timestamp_dmy ==
    Pad(Now.d, 2) \o <<"/">> \o Pad(Now.mo, 2) \o <<"/">> \o Pad(Now.y, 4) \o <<" ">>
    \o Pad(Now.h, 2) \o <<":">> \o Pad(Now.mi, 2) \o <<":">> \o Pad(Now.s, 2)

now_timestamp == FormatTimestamp(Now)

DbName(prefix, h) == prefix \o <<"@">> \o h \o <<".", "s", "q", "l", "i", "t", "e">>

---------------------------------------------------------------------------
(* The SQLite store: a file is a set of named tables and named indexes.    *)
(* A table is its column names and its rows in insertion (rowid) order.    *)

EmptyDb == [tables |-> <<>>, indexes |-> {}]

ColTimestamp == <<"T", "i", "m", "e", "s", "t", "a", "m", "p">>
ColValue == <<"V", "a", "l", "u", "e">>

\* The columns ensure_table creates.
StdCols == <<ColTimestamp, ColValue>>

\* A cell is NULL, a number or a text.
Null == [t |-> "null", s |-> <<>>, n |-> 0]
Real(n) == [t |-> "real", s |-> <<>>, n |-> n]
Text(s) == [t |-> "text", s |-> s, n |-> 0]

\* SQLite resolves table names without regard to ASCII case.
FindTable(db, t) == { n \in DOMAIN db.tables : eq_ignore_ascii_case(n, t) }

HasTable(db, t) == FindTable(db, t) # {}

TableName(db, t) == CHOOSE n \in FindTable(db, t) : TRUE

IndexName(t) == <<"i", "x", "_">> \o t \o <<"_">> \o ColTimestamp

CreateTableIfNotExists(db, t) ==
    IF HasTable(db, t) THEN db
    ELSE [db EXCEPT !.tables =
            (t :> [cols |-> StdCols, rows |-> <<>>]) @@ db.tables]

CreateIndexIfNotExists(db, t) ==
    IF \E n \in db.indexes : eq_ignore_ascii_case(n.name, IndexName(t)) THEN db
    ELSE [db EXCEPT !.indexes = db.indexes \cup {[name |-> IndexName(t), on |-> TableName(db, t)]}]

ensure_table(db, t) == CreateIndexIfNotExists(CreateTableIfNotExists(db, t), t)

\* INSERT INTO t("Timestamp","Value"): possible when the table and both columns exist.
CanInsert(db, t) ==
    /\ HasTable(db, t)
    /\ \A c \in {ColTimestamp, ColValue} :
         \E i \in 1..Len(db.tables[TableName(db, t)].cols) :
            eq_ignore_ascii_case(db.tables[TableName(db, t)].cols[i], c)

\* insert_sample as an upsert keyed by the timestamp: INSERT OR REPLACE.
insert_or_replace(db, t, stamp, value) ==
    LET name == TableName(db, t)
        kept == SelectSeq(db.tables[name].rows, LAMBDA r : r[1] # Text(stamp))
    IN [db EXCEPT !.tables[name].rows = Append(kept, <<Text(stamp), Real(value)>>)]

\* One new row, appended: the two named columns set, any other column NULL.
insert_sample(db, t, stamp, value) ==
    LET cols == db.tables[TableName(db, t)].cols
        row  == [i \in 1..Len(cols) |->
                    IF eq_ignore_ascii_case(cols[i], ColTimestamp) THEN Text(stamp)
                    ELSE IF eq_ignore_ascii_case(cols[i], ColValue) THEN Real(value)
                    ELSE Null]
    IN [db EXCEPT !.tables[TableName(db, t)].rows = Append(@, row)]

---------------------------------------------------------------------------
(* src/graph/plot.rs: parse_ts (chrono's NaiveDateTime::parse_from_str) *)

\* char::is_ascii_digit and the digit's value, tabulated.
DigitValue == [c \in {x \in DOMAIN CodeOf : CodeOf[x] >= CodeOf["0"] /\ CodeOf[x] <= CodeOf["9"]}
                 |-> CodeOf[c] - CodeOf["0"]]

IsDigit(c) == c \in DOMAIN DigitValue

RECURSIVE TrimStart(_)
TrimStart(s) == IF s # <<>> /\ s[1] = " " THEN TrimStart(Tail(s)) ELSE s

RECURSIVE LeadingDigits(_)
LeadingDigits(s) == IF s # <<>> /\ IsDigit(s[1]) THEN 1 + LeadingDigits(Tail(s)) ELSE 0

RECURSIVE ToInt(_)
ToInt(ds) == IF ds = <<>> THEN 0
             ELSE 10 * ToInt(SubSeq(ds, 1, Len(ds) - 1)) + DigitValue[ds[Len(ds)]]

Min(a, b) == IF a < b THEN a ELSE b

ParseFail == [ok |-> FALSE, v |-> 0, rest |-> <<>>]

\* scan::number(s, 1, max): between 1 and max leading digits, as many as there are.
ScanNumber(s, max) ==
    LET n == Min(LeadingDigits(s), max) IN
    IF n = 0 THEN ParseFail
    ELSE [ok |-> TRUE, v |-> ToInt(SubSeq(s, 1, n)), rest |-> SubSeq(s, n + 1, Len(s))]

\* A numeric item: leading whitespace is skipped; a signed item (the year) takes an
\* explicit sign and then any number of digits, and without a sign at most w digits.
ScanNumeric(s0, w, signed) ==
    LET s == TrimStart(s0) IN
    IF signed /\ s # <<>> /\ s[1] = "-"
    THEN LET r == ScanNumber(Tail(s), Len(s)) IN [r EXCEPT !.v = 0 - r.v]
    ELSE IF signed /\ s # <<>> /\ s[1] = "+"
    THEN ScanNumber(Tail(s), Len(s))
    ELSE ScanNumber(s, w)

\* %.f: an optional fraction, a dot and at least one digit; its value is not kept.
ScanFraction(s) ==
    IF s # <<>> /\ s[1] = "."
    THEN LET n == LeadingDigits(Tail(s)) IN
         IF n = 0 THEN ParseFail
         ELSE [ok |-> TRUE, v |-> 0, rest |-> SubSeq(s, n + 2, Len(s))]
    ELSE [ok |-> TRUE, v |-> 0, rest |-> s]

Num(w, signed) == [k |-> "num", w |-> w, signed |-> signed, c |-> ""]
Lit(c) == [k |-> "lit", w |-> 0, signed |-> FALSE, c |-> c]
Space == [k |-> "space", w |-> 0, signed |-> FALSE, c |-> ""]
Frac == [k |-> "frac", w |-> 0, signed |-> FALSE, c |-> ""]

\* "%Y<ds>%m<ds>%d<sep>%H:%M:%S" and, with frac, a trailing "%.f".
FormatItems(ds, sep, frac) ==
    << Num(4, TRUE), Lit(ds), Num(2, FALSE), Lit(ds), Num(2, FALSE), sep,
       Num(2, FALSE), Lit(":"), Num(2, FALSE), Lit(":"), Num(2, FALSE) >>
    \o (IF frac THEN <<Frac>> ELSE <<>>)

F == << FormatItems("-", Space, FALSE),
        FormatItems("/", Space, FALSE),
        FormatItems("-", Lit("T"), FALSE),
        FormatItems("-", Space, TRUE),
        FormatItems("-", Lit("T"), TRUE) >>

\* One item applied to the input: what is left, and the number read if any.
ScanItem(s, it) ==
    CASE it.k = "num" -> ScanNumeric(s, it.w, it.signed)
      [] it.k = "lit" -> IF s # <<>> /\ s[1] = it.c
                         THEN [ok |-> TRUE, v |-> 0, rest |-> Tail(s)] ELSE ParseFail
      [] it.k = "space" -> [ok |-> TRUE, v |-> 0, rest |-> TrimStart(s)]
      [] it.k = "frac" -> ScanFraction(s)

\* The items consumed from left to right: the numbers read, or failure; input left
\* over after the last item is a failure too.
RECURSIVE ParseItems(_, _, _)
ParseRest(r, it, items, nums) ==
    IF r.ok
    THEN ParseItems(r.rest, items, IF it.k = "num" THEN Append(nums, r.v) ELSE nums)
    ELSE [ok |-> FALSE, nums |-> nums]

ParseItems(s, items, nums) ==
    IF items = <<>>
    THEN [ok |-> s = <<>>, nums |-> nums]
    ELSE ParseRest(ScanItem(s, items[1]), items[1], Tail(items), nums)

\* A parsed date-time exists on the calendar; second 60 (a leap second) is kept as 59.
ValidCivil(n) ==
    /\ n[2] \in 1..12
    /\ n[3] >= 1 /\ n[3] <= DaysInMonth(n[1], n[2])
    /\ n[4] \in 0..23 /\ n[5] \in 0..59 /\ n[6] \in 0..60

CivilOfParse(r) ==
    IF r.ok /\ ValidCivil(r.nums)
    THEN Civil(r.nums[1], r.nums[2], r.nums[3], r.nums[4], r.nums[5], Min(r.nums[6], 59))
    ELSE NoCivil

parse_from_str(s, f) == CivilOfParse(ParseItems(s, f, <<>>))

\* The loop over the formats from the i-th on: the first that parses wins, and
\* NoCivil when none does.
RECURSIVE TryFormats(_, _)
ParsedOrNext(dt, s, i) == IF dt # NoCivil THEN dt ELSE TryFormats(s, i + 1)

TryFormats(s, i) ==
    IF i > Len(F) THEN NoCivil ELSE ParsedOrNext(parse_from_str(s, F[i]), s, i)

parse_ts(s) == TryFormats(s, 1)

---------------------------------------------------------------------------
(* src/graph/plot.rs: pick_cols, read_points *)

TimeNames == { <<"t", "i", "m", "e", "s", "t", "a", "m", "p">>, <<"t", "s">>,
               <<"t", "i", "m", "e">> }
ValueNames == { <<"v", "a", "l", "u", "e">>, <<"v", "a", "l">> }

\* The first column whose lowercased name is in names, else the default.
FirstCol(cols, names, default) ==
    IF \E i \in 1..Len(cols) : to_lowercase(cols[i]) \in names
    THEN cols[CHOOSE i \in 1..Len(cols) :
                /\ to_lowercase(cols[i]) \in names
                /\ \A j \in 1..(i - 1) : to_lowercase(cols[j]) \notin names]
    ELSE default

pick_cols(table) ==
    [tc |-> FirstCol(table.cols, TimeNames, ColTimestamp),
     vc |-> FirstCol(table.cols, ValueNames, ColValue)]

\* Position of the named column in the table (names compare without case), 0 if none.
ColIndex(table, name) ==
    IF \E i \in 1..Len(table.cols) : eq_ignore_ascii_case(table.cols[i], name)
    THEN CHOOSE i \in 1..Len(table.cols) : eq_ignore_ascii_case(table.cols[i], name)
    ELSE 0

\* SQLite's order of cells: NULL, then numbers by value, then text by its bytes.
CellLess(a, b) ==
    LET rank(c) == IF c.t = "null" THEN 0 ELSE IF c.t = "real" THEN 1 ELSE 2 IN
    IF rank(a) # rank(b) THEN rank(a) < rank(b)
    ELSE IF a.t = "real" THEN a.n < b.n
    ELSE IF a.t = "text" THEN StrLess(a.s, b.s)
    ELSE FALSE

\* ORDER BY key ASC: rows with equal keys stay in rowid order.
RECURSIVE InsertSorted(_, _)
InsertSorted(sorted, r) ==
    IF sorted = <<>> THEN <<r>>
    ELSE IF CellLess(r.key, sorted[1].key) THEN <<r>> \o sorted
    ELSE <<sorted[1]>> \o InsertSorted(Tail(sorted), r)

RECURSIVE OrderByKey(_)
OrderByKey(rows) ==
    IF rows = <<>> THEN <<>>
    ELSE InsertSorted(OrderByKey(SubSeq(rows, 1, Len(rows) - 1)), rows[Len(rows)])

Point(x, y) == [x |-> x, y |-> y]

\* row.get::<String>(0) and row.get::<f64>(1) succeed on a text and on a number.
RowReadable(r) == r.key.t = "text" /\ r.val.t = "real"

PointOf(dt, val) == IF dt = NoCivil THEN <<>> ELSE <<Point(EpochOf(dt), val.n)>>

RECURSIVE PointsOf(_)
PointsOf(rows) ==
    IF rows = <<>> THEN <<>>
    ELSE PointOf(parse_ts(rows[1].key.s), rows[1].val) \o PointsOf(Tail(rows))

ReadFail == [ok |-> FALSE, pts |-> <<>>]

\* The loop over the result rows: a cell of another type ends it with an error.
ReadRows(sorted) ==
    IF \E i \in 1..Len(sorted) : ~RowReadable(sorted[i]) THEN ReadFail
    ELSE [ok |-> TRUE, pts |-> PointsOf(sorted)]

\* SELECT "tc", "vc" FROM table ORDER BY "tc" ASC, the columns at positions it and
\* iv.  A double-quoted name that is no column of the table (position 0) is an
\* error in a build with SQLITE_DQS=0 and the string literal of that name in a
\* build that keeps SQLite's legacy behaviour.
Select(table, cols, it, iv, legacy) ==
    IF (it = 0 \/ iv = 0) /\ ~legacy THEN ReadFail
    ELSE ReadRows(OrderByKey(
           [i \in 1..Len(table.rows) |->
              [key |-> IF it = 0 THEN Text(cols.tc) ELSE table.rows[i][it],
               val |-> IF iv = 0 THEN Text(cols.vc) ELSE table.rows[i][iv]]]))

SelectCols(table, cols, legacy) ==
    Select(table, cols, ColIndex(table, cols.tc), ColIndex(table, cols.vc), legacy)

read_points(table, legacy) == SelectCols(table, pick_cols(table), legacy)

---------------------------------------------------------------------------
(* src/collect.rs: run_collect, one step per statement that reads the clock *)
(* or writes the store                                                      *)

CPU == <<"C", "P", "U">>
RAM == <<"R", "A", "M">>

Outcomes == {"ok", "ensure_err", "insert_err"}

sample_ram_percent(m) ==
    IF m.total <= 0 THEN 0 ELSE ((m.total - m.avail) * 100) \div m.total

used_pct(d) == ((d.total - d.avail) * 100) \div d.total

Viable(d) == ~(d.total <= 0)

\* ensure_table(..)?; insert_sample(..)?: the store after the pair, and whether both
\* succeeded. outcome is what the storage engine answers.
WriteMetric(db, t, stamp, v, outcome) ==
    IF outcome = "ensure_err" THEN [ok |-> FALSE, db |-> db]
    ELSE IF outcome = "insert_err" \/ ~CanInsert(ensure_table(db, t), t)
    THEN [ok |-> FALSE, db |-> ensure_table(db, t)]
    ELSE [ok |-> TRUE, db |-> insert_sample(ensure_table(db, t), t, stamp, v)]

\* History: the samples insert_sample was asked to store, per file and table.
Logged(log, f, t) ==
    IF f \in DOMAIN log /\ t \in DOMAIN log[f] THEN log[f][t] ELSE <<>>

Log(log, f, t, c, stamp, v) ==
    LET old == IF f \in DOMAIN log THEN log[f] ELSE <<>>
    IN (f :> ((t :> Append(Logged(log, f, t), [c |-> c, ts |-> stamp, v |-> v]))
              @@ old)) @@ log

\* Storage errors are explored in the first tick; the ticks after it then meet what
\* the failed one left behind.
MayFail(ok) == ok \/ runs = 1

\* Lines 87-89: the file name from the first clock reading, and Connection::open.
RcOpen(okOpen) ==
    /\ pc = "idle"
    /\ MayFail(okOpen)
    /\ LET name == DbName(month_prefix_yyyymm, hostname_upper) IN
       /\ db_name' = name
       /\ files0' = files
       /\ IF okOpen
          THEN /\ files' = IF name \in DOMAIN files THEN files
                           ELSE (name :> EmptyDb) @@ files
               /\ pc' = "ts"
          ELSE /\ files' = files
               /\ pc' = "failed"
    /\ tickWrites' = <<>>
    /\ di' = 1
    /\ UNCHANGED <<host, disks, clock, ts, printed, runs, tsAt, inserted>>
    /\ UNCHANGED <<labelVars, graphVars>>

\* Line 98: the timestamp from the second clock reading.
RcTimestamp ==
    /\ pc = "ts"
    /\ ts' = now_timestamp
    /\ tsAt' = Now
    /\ pc' = "cpu"
    /\ UNCHANGED <<host, disks, clock, db_name, di, files, printed, runs,
                   files0, inserted, tickWrites>>
    /\ UNCHANGED <<labelVars, graphVars>>

RcWrite(t, v, outcome, next) ==
    LET r == WriteMetric(files[db_name], t, ts, v, outcome) IN
    /\ MayFail(outcome = "ok")
    /\ files' = [files EXCEPT ![db_name] = r.db]
    /\ inserted' = IF r.ok THEN Log(inserted, db_name, t, tsAt, ts, v) ELSE inserted
    /\ pc' = IF r.ok THEN next ELSE "failed"

\* Lines 101-103.
RcCpu(v, outcome) ==
    /\ pc = "cpu"
    /\ RcWrite(CPU, v, outcome, "ram")
    /\ UNCHANGED <<host, disks, clock, db_name, ts, di, printed, runs,
                   tsAt, files0, tickWrites>>
    /\ UNCHANGED <<labelVars, graphVars>>

\* Lines 106-108.
RcRam(m, outcome) ==
    /\ pc = "ram"
    /\ RcWrite(RAM, sample_ram_percent(m), outcome, "disks")
    /\ UNCHANGED <<host, disks, clock, db_name, ts, di, printed, runs,
                   tsAt, files0, tickWrites>>
    /\ UNCHANGED <<labelVars, graphVars>>

\* RcDisk with break for continue: a mount without space ends the loop.
RcDiskBreak(outcome) ==
    /\ pc = "disks"
    /\ di <= Len(disks)
    /\ LET d == disks[di]
           lab == label_for_mount_point(d.mount)
       IN IF ~Viable(d)
          THEN /\ pc' = pc
               /\ di' = Len(disks) + 1
               /\ UNCHANGED <<files, inserted, tickWrites>>
          ELSE /\ RcWrite(lab, used_pct(d), outcome, "disks")
               /\ di' = di + 1
               /\ tickWrites' =
                    IF outcome = "ok"
                    THEN (lab :> ((IF lab \in DOMAIN tickWrites THEN tickWrites[lab] ELSE {})
                                  \cup {d.mount})) @@ tickWrites
                    ELSE tickWrites
    /\ UNCHANGED <<host, disks, clock, db_name, ts, printed, runs, tsAt, files0>>
    /\ UNCHANGED <<labelVars, graphVars>>

\* Lines 112-125: one iteration of the loop over the disk list.
RcDisk(outcome) ==
    /\ pc = "disks"
    /\ di <= Len(disks)
    /\ LET d == disks[di]
           lab == label_for_mount_point(d.mount)
       IN IF ~Viable(d)
          THEN /\ pc' = pc
               /\ UNCHANGED <<files, inserted, tickWrites>>
          ELSE /\ RcWrite(lab, used_pct(d), outcome, "disks")
               /\ tickWrites' =
                    IF outcome = "ok"
                    THEN (lab :> ((IF lab \in DOMAIN tickWrites THEN tickWrites[lab] ELSE {})
                                  \cup {d.mount})) @@ tickWrites
                    ELSE tickWrites
    /\ di' = di + 1
    /\ UNCHANGED <<host, disks, clock, db_name, ts, printed, runs, tsAt, files0>>
    /\ UNCHANGED <<labelVars, graphVars>>

NotPrinted == [db |-> <<>>, ts |-> <<>>]

\* Line 127: the confirmation line.
RcPrint ==
    /\ pc = "disks"
    /\ di > Len(disks)
    /\ printed' = [db |-> db_name, ts |-> ts]
    /\ pc' = "done"
    /\ UNCHANGED <<host, disks, clock, db_name, ts, di, files, runs,
                   tsAt, files0, inserted, tickWrites>>
    /\ UNCHANGED <<labelVars, graphVars>>

\* The process ends; the scheduler starts the next tick.
RcExit ==
    /\ pc \in {"done", "failed"}
    /\ runs < MaxRuns
    /\ runs' = runs + 1
    /\ pc' = "idle"
    /\ printed' = NotPrinted
    /\ UNCHANGED <<host, disks, clock, db_name, ts, di, files,
                   tsAt, files0, inserted, tickWrites>>
    /\ UNCHANGED <<labelVars, graphVars>>

\* Wall-clock time passes. run_collect reads the clock in RcOpen and in
\* RcTimestamp only, so time that passes elsewhere is time that passes before the
\* next of these two.
Tick ==
    /\ pc \in {"idle", "ts"}
    /\ clock < Len(ClockPool)
    /\ \E c \in (clock + 1)..Len(ClockPool) : clock' = c
    /\ UNCHANGED <<host, disks, pc, db_name, ts, di, files, printed, runs,
                   tsAt, files0, inserted, tickWrites>>
    /\ UNCHANGED <<labelVars, graphVars>>

---------------------------------------------------------------------------
(* src/graph/plot.rs: split_stem_sqlite, list_tables, render_series *)

Stats == <<"s", "t", "a", "t", "s">>
ExtSqlite == <<"s", "q", "l", "i", "t", "e">>
ExtPng == <<".", "p", "n", "g">>

\* (ym, host, metric): two parts are a monthly file, three a per-metric file.
split_stem_sqlite(stem) ==
    LET parts == SplitOn(stem, {"@"}) IN
    IF Len(parts) = 2 THEN [ym |-> parts[1], host |-> parts[2], metric |-> None]
    ELSE IF Len(parts) = 3 THEN [ym |-> parts[1], host |-> parts[2], metric |-> parts[3]]
    ELSE [ym |-> stem, host |-> <<>>, metric |-> None]

\* name NOT LIKE 'sqlite_%': LIKE ignores ASCII case and _ stands for any character.
IsInternal(n) == Len(n) >= 7 /\ to_lowercase(SubSeq(n, 1, 6)) = ExtSqlite

\* ORDER BY name: the names in byte order.
RECURSIVE SortNames(_)
SortNames(S) ==
    IF S = {} THEN <<>>
    ELSE LET m == CHOOSE x \in S : \A y \in S \ {x} : StrLess(x, y)
         IN <<m>> \o SortNames(S \ {m})

list_tables(db) == SortNames({n \in DOMAIN db.tables : ~IsInternal(n)})

\* chrono::Local of the host: UTC plus a fixed offset in seconds.
LocalYearMonth(x, offset) == CivilFromDays((x + offset) \div 86400)

\* Lines 131-140: the day before the first of the next month.
LastDay(first) ==
    CivilFromDays(DaysFromCivil(IF first.mo = 12 THEN first.y + 1 ELSE first.y,
                                IF first.mo = 12 THEN 1 ELSE first.mo + 1, 1) - 1).d

\* Lines 159-167: the midnights of days 2..last_day that lie within the x range.
GridLines(min_x, max_x, first, last_day) ==
    [year |-> first.y, month |-> first.mo, last_day |-> last_day,
     lines |-> { x \in { EpochOf(Civil(first.y, first.mo, day, 0, 0, 0)) :
                           day \in 2..last_day } :
                   ~(x < min_x \/ x > max_x) }]

GridIn(min_x, max_x, first) == GridLines(min_x, max_x, first, LastDay(first))

\* Lines 124-130: the month of the first point, in the host's time zone.
GridOf(ps, offset) ==
    GridIn(ps[1].x, ps[Len(ps)].x, LocalYearMonth(ps[1].x, offset))

NoImage ==
    [path |-> <<>>, caption |-> <<>>, ps |-> <<>>, min_x |-> 0, max_x |-> 0,
     grid |-> [year |-> 0, month |-> 0, last_day |-> 0, lines |-> {}]]

\* render_series without its first lines: an image also for no points.
render_series_unguarded(out, ym, h, metric, ps, offset) ==
    [path |-> out, caption |-> <<ym, h, metric>>, ps |-> ps,
     min_x |-> IF ps = <<>> THEN 0 ELSE ps[1].x,
     max_x |-> IF ps = <<>> THEN 0 ELSE ps[Len(ps)].x,
     grid |-> IF ps = <<>> THEN NoImage.grid ELSE GridOf(ps, offset)]

\* The image render_series writes, NoImage when it writes none.
render_series(out, ym, h, metric, ps, offset) ==
    IF ps = <<>> THEN NoImage
    ELSE [path |-> out, caption |-> <<ym, h, metric>>, ps |-> ps,
          min_x |-> ps[1].x, max_x |-> ps[Len(ps)].x, grid |-> GridOf(ps, offset)]

---------------------------------------------------------------------------
(* The working directory a graph run scans *)

Cols2(a, b) == <<a, b>>
Table(cols, rows) == [cols |-> cols, rows |-> rows]
Db(tbls) == [tables |-> tbls, indexes |-> {}]

\* A timestamp text in one of the accepted spellings, or out of them.
Stamp(c, ds, sep, frac) ==
    Pad(c.y, 4) \o <<ds>> \o Pad(c.mo, 2) \o <<ds>> \o Pad(c.d, 2) \o <<sep>>
    \o Pad(c.h, 2) \o <<":">> \o Pad(c.mi, 2) \o <<":">> \o Pad(c.s, 2) \o frac

S1(c) == Stamp(c, "-", " ", <<>>)
R(stamp, v) == <<Text(stamp), Real(v)>>

\* A directory entry; corrupt: the file is no SQLite database, every query on it fails.
Entry(stem, ext, db) ==
    [stem |-> stem, ext |-> ext, is_file |-> TRUE, corrupt |-> FALSE, db |-> db]
Junk(stem, ext) ==
    [stem |-> stem, ext |-> ext, is_file |-> TRUE, corrupt |-> TRUE, db |-> Db(<<>>)]

Pc1 == <<"@", "P", "C", "1">>

Nov == Table(StdCols, << R(S1(Civil(2025, 11, 1, 0, 0, 0)), 10),
                         R(S1(Civil(2025, 11, 15, 12, 0, 0)), 20),
                         R(S1(Civil(2025, 11, 30, 23, 59, 59)), 30) >>)
Dec == Table(StdCols, << R(S1(Civil(2025, 12, 1, 0, 30, 0)), 10),
                         R(S1(Civil(2025, 12, 31, 23, 0, 0)), 20) >>)
Feb == Table(StdCols, << R(S1(Civil(2024, 2, 1, 0, 0, 0)), 10),
                         R(S1(Civil(2024, 2, 29, 12, 0, 0)), 20) >>)
MidNov == Table(StdCols, << R(S1(Civil(2025, 11, 3, 10, 0, 0)), 42),
                            R(S1(Civil(2025, 11, 5, 0, 0, 0)), 43) >>)
Mixed == Table(StdCols,
               << R(Stamp(Civil(2025, 11, 3, 10, 0, 0), "-", "T", <<>>), 1),
                  R(Stamp(Civil(2025, 11, 3, 11, 0, 0), "-", " ", <<>>), 2),
                  R(Stamp(Civil(2025, 11, 2, 9, 0, 0), "/", " ", <<>>), 3),
                  R(Stamp(Civil(2025, 11, 4, 10, 0, 0), "-", " ", <<".", "5">>), 4),
                  R(<<"s", "o", "o", "n">>, 5) >>)
Empty == Table(StdCols, <<>>)
Legacy == Table(Cols2(<<"t", "s">>, <<"v", "a", "l", "u", "e">>),
                << R(S1(Civil(2025, 11, 3, 10, 0, 0)), 42) >>)
NoCols == Table(Cols2(<<"a">>, <<"b">>), << R(<<"x">>, 1) >>)
NullCell == Table(StdCols, << <<Text(S1(Civil(2025, 11, 3, 10, 0, 0))), Null>> >>)

EntryPool ==
    { Entry(<<"2", "0", "2", "5", "1", "1">> \o Pc1, ExtSqlite,
            Db((CPU :> Nov) @@ (RAM :> Empty))),
      Entry(<<"2", "0", "2", "5", "1", "2">> \o Pc1, ExtSqlite, Db(CPU :> Dec)),
      Entry(<<"2", "0", "2", "4", "0", "2">> \o Pc1, ExtSqlite, Db(CPU :> Feb)),
      Entry(<<"2", "0", "2", "5", "1", "1", "@", "M", "I", "X">>, ExtSqlite,
            Db(CPU :> Mixed)),
      Entry(<<"2", "0", "2", "5", "1", "1", "@", "B", "A", "D">>, ExtSqlite,
            Db((CPU :> NoCols) @@ (RAM :> MidNov))),
      Entry(<<"2", "0", "2", "5", "1", "1", "@", "N", "U", "L">>, ExtSqlite,
            Db(CPU :> NullCell)),
      Entry(<<"2", "0", "2", "5", "-", "1", "1">> \o Pc1 \o <<"@">> \o CPU, ExtSqlite,
            Db((Stats :> Legacy) @@ (<<"a">> :> Empty))),
      Entry(<<"2", "0", "2", "5", "-", "1", "1">> \o Pc1 \o <<"@">> \o RAM, <<"S", "Q", "L", "I", "T", "E">>,
            Db(<<"b">> :> Empty)),
      Entry(<<"2", "0", "2", "5", "1", "0">> \o Pc1, ExtSqlite,
            Db(<<"s", "q", "l", "i", "t", "e", "_", "s", "e", "q">> :> Empty)),
      Junk(<<"n", "o", "t", "e", "s">>, <<"t", "x", "t">>),
      Junk(<<"j", "u", "n", "k">>, ExtSqlite) }

MaxFiles == 2

\* Directory listings: every file name appears once, in any order.
Listings ==
    { l \in SeqsUpTo(EntryPool, MaxFiles) :
        \A i, j \in 1..Len(l) : i # j => l[i].stem # l[j].stem }

\* Offsets of the host's time zone from UTC, in seconds.
TzPool == {0 - 18000, 0, 36000}

---------------------------------------------------------------------------
(* src/graph/plot.rs: plot_all_sqlite_in_cwd, one step per directory entry *)
(* and per table                                                           *)

IsSqlite(e) == e.is_file /\ e.ext # None /\ eq_ignore_ascii_case(e.ext, ExtSqlite)

Abort(why) ==
    /\ gpc' = "aborted"
    /\ gerr' = why
    /\ UNCHANGED <<gi, ti, tables, outs>>

\* Lines 203-207 and 212-218 after read_points succeeded: img is what render_series
\* answers for the points. A drawing error ends the run and may leave the file
\* behind (left).
Rendered(out, img, okRender, left) ==
    IF img = NoImage
    THEN /\ outs' = Append(outs, out)
         /\ UNCHANGED <<images, gerr>>
    ELSE IF okRender
    THEN /\ outs' = Append(outs, out)
         /\ images' = (out :> img) @@ images
         /\ UNCHANGED gerr
    ELSE /\ images' = IF left THEN (out :> img) @@ images ELSE images
         /\ gerr' = "render"
         /\ UNCHANGED outs

Render(out, st, metric, p, okRender, left) ==
    Rendered(out, render_series(out, st.ym, st.host, metric, p, tz), okRender, left)

\* Lines 183-186: not a regular file, or not named *.sqlite.
GSkip ==
    /\ gpc = "scan"
    /\ gi <= Len(cwd)
    /\ ~IsSqlite(cwd[gi])
    /\ gi' = gi + 1
    /\ UNCHANGED <<cwd, tz, dqs, gpc, ti, tables, outs, images, pts, gerr>>
    /\ UNCHANGED <<labelVars, collectVars>>

\* Lines 188-197: the stem, the connection, the table list.
GList ==
    /\ gpc = "scan"
    /\ gi <= Len(cwd)
    /\ IsSqlite(cwd[gi])
    /\ IF cwd[gi].corrupt
       THEN Abort("list")
       ELSE LET names == list_tables(cwd[gi].db) IN
            IF names = <<>>
            THEN /\ gi' = gi + 1
                 /\ UNCHANGED <<gpc, ti, tables, outs, gerr>>
            ELSE /\ tables' = names
                 /\ ti' = 1
                 /\ gpc' = IF split_stem_sqlite(cwd[gi].stem).metric # None
                           THEN "metric" ELSE "tables"
                 /\ UNCHANGED <<gi, outs, gerr>>
    /\ UNCHANGED <<cwd, tz, dqs, images, pts>>
    /\ UNCHANGED <<labelVars, collectVars>>

\* Lines 203-207: the points read (r) of a per-metric file's table.
PerMetricRead(e, r, okRender, left) ==
    IF ~r.ok
    THEN /\ Abort("read")
         /\ UNCHANGED <<images, pts>>
    ELSE /\ pts' = r.pts
         /\ Render(<<".", "/">> \o e.stem \o ExtPng, split_stem_sqlite(e.stem),
                   split_stem_sqlite(e.stem).metric, r.pts, okRender, left)
         /\ IF r.pts = <<>> \/ okRender
            THEN gpc' = "scan" /\ gi' = gi + 1
            ELSE gpc' = "aborted" /\ gi' = gi
         /\ UNCHANGED <<ti, tables>>

\* Lines 198-202: the table named stats if there is one, else the first listed.
PerMetricTable ==
    IF \E i \in 1..Len(tables) : eq_ignore_ascii_case(tables[i], Stats)
    THEN Stats ELSE tables[1]

\* Lines 197-208: a per-metric file, one image for the whole file.
GPerMetric(okRender, left) ==
    /\ gpc = "metric"
    /\ PerMetricRead(cwd[gi],
                     read_points(cwd[gi].db.tables[TableName(cwd[gi].db, PerMetricTable)], dqs),
                     okRender, left)
    /\ UNCHANGED <<cwd, tz, dqs>>
    /\ UNCHANGED <<labelVars, collectVars>>

\* Lines 212-218: the points read (r) of table t of a monthly file.
TableRead(e, t, r, okRender, left) ==
    IF ~r.ok
    THEN /\ Abort("read")
         /\ UNCHANGED <<images, pts>>
    ELSE /\ pts' = r.pts
         /\ IF r.pts = <<>>
            THEN /\ ti' = ti + 1
                 /\ UNCHANGED <<gpc, outs, images, gerr>>
            ELSE /\ Render(e.stem \o <<"@">> \o t \o ExtPng, split_stem_sqlite(e.stem),
                           t, r.pts, okRender, left)
                 /\ IF okRender
                    THEN gpc' = gpc /\ ti' = ti + 1
                    ELSE gpc' = "aborted" /\ ti' = ti
         /\ UNCHANGED <<gi, tables>>

\* Lines 211-219: one table of a monthly file.
GTable(okRender, left) ==
    /\ gpc = "tables"
    /\ ti <= Len(tables)
    /\ TableRead(cwd[gi], tables[ti], read_points(cwd[gi].db.tables[tables[ti]], dqs),
                 okRender, left)
    /\ UNCHANGED <<cwd, tz, dqs>>
    /\ UNCHANGED <<labelVars, collectVars>>

\* The loop over the tables ends: the next directory entry.
GNextFile ==
    /\ gpc = "tables"
    /\ ti > Len(tables)
    /\ gpc' = "scan"
    /\ gi' = gi + 1
    /\ UNCHANGED <<cwd, tz, dqs, ti, tables, outs, images, pts, gerr>>
    /\ UNCHANGED <<labelVars, collectVars>>

\* Line 222: Ok(outs).
GDone ==
    /\ gpc = "scan"
    /\ gi > Len(cwd)
    /\ gpc' = "done"
    /\ UNCHANGED <<cwd, tz, dqs, gi, ti, tables, outs, images, pts, gerr>>
    /\ UNCHANGED <<labelVars, collectVars>>

---------------------------------------------------------------------------
(* label_for_mount_point applied to every short string over its alphabet *)

MountAlphabet == {"/", "\\", ":", "a", "b", "C"}
MaxMountLen == 3

CallLabel ==
    /\ label = None
    /\ label' = label_for_mount_point(mp)
    /\ mp' = mp
    /\ UNCHANGED <<collectVars, graphVars>>

---------------------------------------------------------------------------
(* Specifications *)

IdleLabel == mp = <<>> /\ label = None

IdleCollect ==
    /\ host = None /\ disks = <<>> /\ clock = 1 /\ pc = "off" /\ db_name = <<>>
    /\ ts = <<>> /\ di = 1 /\ files = <<>> /\ printed = NotPrinted /\ runs = 1
    /\ tsAt = NoCivil /\ files0 = <<>> /\ inserted = <<>> /\ tickWrites = <<>>

IdleGraph ==
    /\ cwd = <<>> /\ tz = 0 /\ dqs = FALSE /\ gpc = "off" /\ gi = 1 /\ ti = 1
    /\ tables = <<>> /\ outs = <<>> /\ images = <<>> /\ pts = <<>> /\ gerr = "none"

InitLabel ==
    /\ mp \in SeqsUpTo(MountAlphabet, MaxMountLen)
    /\ label = None
    /\ IdleCollect
    /\ IdleGraph

NextLabel == CallLabel

SpecLabel == InitLabel /\ [][NextLabel]_vars

InitCollect ==
    /\ host \in HostPool
    /\ disks \in DiskLists
    /\ clock = 1
    /\ pc = "idle"
    /\ db_name = <<>>
    /\ ts = <<>>
    /\ di = 1
    /\ files = <<>>
    /\ printed = NotPrinted
    /\ runs = 1
    /\ tsAt = NoCivil
    /\ files0 = <<>>
    /\ inserted = <<>>
    /\ tickWrites = <<>>
    /\ IdleLabel
    /\ IdleGraph

NextCollect ==
    \/ \E okOpen \in BOOLEAN : RcOpen(okOpen)
    \/ RcTimestamp
    \/ \E v \in CpuPool, o \in Outcomes : RcCpu(v, o)
    \/ \E m \in MemPool, o \in Outcomes : RcRam(m, o)
    \/ \E o \in Outcomes : RcDisk(o)
    \/ RcPrint
    \/ RcExit
    \/ Tick

SpecCollect == InitCollect /\ [][NextCollect]_vars

InitGraph ==
    /\ cwd \in Listings
    /\ tz \in TzPool
    /\ dqs \in BOOLEAN
    /\ gpc = "scan"
    /\ gi = 1
    /\ ti = 1
    /\ tables = <<>>
    /\ outs = <<>>
    /\ images = <<>>
    /\ pts = <<>>
    /\ gerr = "none"
    /\ IdleLabel
    /\ IdleCollect

NextGraph ==
    \/ GSkip
    \/ GList
    \/ \E okRender \in BOOLEAN, left \in BOOLEAN : GPerMetric(okRender, left)
    \/ \E okRender \in BOOLEAN, left \in BOOLEAN : GTable(okRender, left)
    \/ GNextFile
    \/ GDone

SpecGraph == InitGraph /\ [][NextGraph]_vars

---------------------------------------------------------------------------
(* Properties of run_collect and of the store (SpecCollect) *)

RowsOf(fs, f, t) ==
    IF f \in DOMAIN fs /\ HasTable(fs[f], t)
    THEN fs[f].tables[TableName(fs[f], t)].rows ELSE <<>>

RECURSIVE SumRows(_, _)
SumRows(db, names) ==
    IF names = {} THEN 0
    ELSE LET n == CHOOSE x \in names : TRUE
         IN Len(db.tables[n].rows) + SumRows(db, names \ {n})

TotalRows(fs, f) == IF f \in DOMAIN fs THEN SumRows(fs[f], DOMAIN fs[f].tables) ELSE 0

ViableDisks == {i \in 1..Len(disks) : disks[i].total > 0}

\* The rows table t of the scope file gained since the tick began.
Gained(t) ==
    SubSeq(RowsOf(files, db_name, t), Len(RowsOf(files0, db_name, t)) + 1,
           Len(RowsOf(files, db_name, t)))

KeepsOld(t) ==
    SubSeq(RowsOf(files, db_name, t), 1, Len(RowsOf(files0, db_name, t)))
        = RowsOf(files0, db_name, t)

ScopeNames ==
    { Pad(ClockPool[i].y, 4) \o Pad(ClockPool[i].mo, 2) \o <<"@">> \o hostname_upper
        \o <<".", "s", "q", "l", "i", "t", "e">> : i \in 1..clock }

\* C1: once the confirmation line is printed, the tick has added to the scope file
\* "{YYYYMM}@{HOST}.sqlite" exactly one row to CPU, one to RAM and one per mount
\* with total space > 0 (k + 2 rows in all), every one with the tick's timestamp;
\* mounts without space add none and do not end the loop; nothing else changed.
C1_OneRowPerMetric ==
    printed # NotPrinted =>
        /\ pc = "done"
        /\ printed = [db |-> db_name, ts |-> ts]
        /\ db_name \in ScopeNames
        /\ \A t \in {CPU, RAM} :
             /\ KeepsOld(t)
             /\ Len(Gained(t)) = 1
             /\ Gained(t)[1][1] = Text(ts)
        /\ \A i \in 1..Len(disks) :
             LET t == label_for_mount_point(disks[i].mount) IN
             /\ KeepsOld(t)
             /\ Len(Gained(t)) =
                  Cardinality({j \in ViableDisks : label_for_mount_point(disks[j].mount) = t})
             /\ \A r \in 1..Len(Gained(t)) : Gained(t)[r][1] = Text(ts)
        /\ TotalRows(files, db_name) = TotalRows(files0, db_name) + Cardinality(ViableDisks) + 2
        /\ DOMAIN files = DOMAIN files0 \cup {db_name}
        /\ \A f \in DOMAIN files0 \ {db_name} : files[f] = files0[f]

\* A finished tick over a disk list that holds a mount without space before one
\* with space.
C1_Witness ==
    /\ printed # NotPrinted
    /\ Len(disks) = 2
    /\ disks[1].total <= 0
    /\ disks[2].total > 0

\* C2: every table holds exactly the samples insert_sample stored in it, in order,
\* duplicates of a timestamp included; repeated ensure_table leaves one table and
\* one index per label and the columns as created.
C2_TablesHoldInserted ==
    \A f \in DOMAIN files :
        /\ \A t \in DOMAIN files[f].tables :
             /\ files[f].tables[t].cols = StdCols
             /\ files[f].tables[t].rows =
                  [i \in 1..Len(Logged(inserted, f, t)) |->
                     <<Text(Logged(inserted, f, t)[i].ts), Real(Logged(inserted, f, t)[i].v)>>]
             /\ Cardinality({x \in files[f].indexes : x.on = t}) = 1
             /\ \A u \in DOMAIN files[f].tables : eq_ignore_ascii_case(t, u) => t = u
        /\ Cardinality(files[f].indexes) = Cardinality(DOMAIN files[f].tables)
        /\ f \in DOMAIN inserted => DOMAIN inserted[f] \subseteq DOMAIN files[f].tables

\* A table that ensure_table met again and that holds two rows of one timestamp.
C2_Witness ==
    /\ runs = 2
    /\ \E f \in DOMAIN files : \E t \in DOMAIN files[f].tables :
         /\ Len(files[f].tables[t].rows) >= 2
         /\ files[f].tables[t].rows[1][1] = files[f].tables[t].rows[2][1]

Count(seq, e) == Cardinality({i \in 1..Len(seq) : seq[i] = e})

Written(f, t) ==
    [i \in 1..Len(Logged(inserted, f, t)) |->
        Point(EpochOf(Logged(inserted, f, t)[i].c), Logged(inserted, f, t)[i].v)]

SameBag(a, b) ==
    /\ Len(a) = Len(b)
    /\ \A i \in 1..Len(b) : Count(a, b[i]) = Count(b, b[i])

RoundTrip(f, t, r) == r.ok /\ SameBag(r.pts, Written(f, t))

\* C3: read_points on a table the collector wrote yields one point per row written,
\* the value stored and the epoch of the civil date-time of the clock reading the
\* row's timestamp was formatted from.  The tables read are those of the file the
\* tick writes to: any other file is as it was when it was that file.
C3_RoundTrip ==
    \A f \in DOMAIN files \cap {db_name} :
        \A t \in DOMAIN files[f].tables : \A legacy \in BOOLEAN :
            RoundTrip(f, t, read_points(files[f].tables[t], legacy))

\* The row "2025-11-03 10:00:00" written to CPU and read back as one point.
C3_Witness ==
    \E f \in DOMAIN files :
        /\ HasTable(files[f], CPU)
        /\ Len(files[f].tables[CPU].rows) = 1
        /\ files[f].tables[CPU].rows[1][1] =
             Text(<<"2", "0", "2", "5", "-", "1", "1", "-", "0", "3", " ",
                    "1", "0", ":", "0", "0", ":", "0", "0">>)
        /\ read_points(files[f].tables[CPU], FALSE).pts = <<Point(1762164000, 37)>>

\* C5: in one tick no table receives rows from two different mounts: the labels of
\* the mounts sampled are distinct.
C5_LabelsDistinct ==
    \A lab \in DOMAIN tickWrites : Cardinality(tickWrites[lab]) <= 1

\* C10: every row lies in the month its file is named for: the year and month of
\* the row's timestamp are the YYYYMM the file name begins with.
C10_RowsInScopeMonth ==
    \A f \in DOMAIN files : \A t \in DOMAIN files[f].tables :
        \A i \in 1..Len(files[f].tables[t].rows) :
            /\ SubSeq(files[f].tables[t].rows[i][1].s, 1, 4) = SubSeq(f, 1, 4)
            /\ SubSeq(files[f].tables[t].rows[i][1].s, 6, 7) = SubSeq(f, 5, 6)

---------------------------------------------------------------------------
(* Properties of label_for_mount_point (SpecLabel) *)

Segments(m) == SelectSeq(SplitOn(m, {"/", "\\"}), LAMBDA x : x # <<>>)

\* C4: for a mount string whose second character is no colon, the label is the
\* uppercased last non-empty segment, colons stripped, followed by "_Drive", and
\* "Disk_Drive" when there is no segment.
C4_LabelContract ==
    (label # None /\ ~(Len(mp) >= 2 /\ mp[2] = ":")) =>
        label = IF Segments(mp) = <<>>
                THEN <<"D", "i", "s", "k", "_", "D", "r", "i", "v", "e">>
                ELSE to_uppercase(StripChar(Segments(mp)[Len(Segments(mp))], ":"))
                     \o <<"_", "D", "r", "i", "v", "e">>

---------------------------------------------------------------------------
(* Properties of the graph run (SpecGraph) *)

\* C6: the points read are ordered by instant.
C6_PointsOrdered ==
    \A i, j \in 1..Len(pts) : i < j => pts[i].x <= pts[j].x

StemPng(e) == <<".", "/">> \o e.stem \o ExtPng
TablePng(e, t) == e.stem \o <<"@">> \o t \o ExtPng

Readable(e, t) == read_points(e.db.tables[TableName(e.db, t)], dqs)

MetricTable(names) ==
    IF \E i \in 1..Len(names) : eq_ignore_ascii_case(names[i], Stats) THEN Stats
    ELSE names[1]

IsMonthly(e) == split_stem_sqlite(e.stem).metric = None

\* A file every query on which succeeds.
Sound(e) ==
    /\ IsSqlite(e)
    /\ ~e.corrupt
    /\ LET names == list_tables(e.db) IN
       \/ names = <<>>
       \/ ~IsMonthly(e) /\ Readable(e, MetricTable(names)).ok
       \/ IsMonthly(e) /\ \A i \in 1..Len(names) : Readable(e, names[i]).ok

\* The images a sound file is to give: one per table that has points.
ImagesDue(e) ==
    LET names == list_tables(e.db) IN
    IF names = <<>> THEN {}
    ELSE IF ~IsMonthly(e)
    THEN (IF Readable(e, MetricTable(names)).pts # <<>> THEN {StemPng(e)} ELSE {})
    ELSE {TablePng(e, names[i]) : i \in {k \in 1..Len(names) : Readable(e, names[k]).pts # <<>>}}

\* C7: when the run has ended, for another reason than a drawing error, every sound
\* file of the directory has its images, whatever failed in the other files.
C7_PerFileSkip ==
    (gpc \in {"done", "aborted"} /\ gerr # "render") =>
        \A i \in 1..Len(cwd) : Sound(cwd[i]) => ImagesDue(cwd[i]) \subseteq DOMAIN images

\* C8: no image is written for an empty point sequence, and a run that skipped
\* empty tables and table-less files has gone on to write every image that is due.
C8_NoEmptyImage ==
    /\ \A p \in DOMAIN images : images[p].ps # <<>>
    /\ gpc = "done" =>
         \A i \in 1..Len(cwd) :
            (IsSqlite(cwd[i]) /\ ~cwd[i].corrupt) =>
                /\ ImagesDue(cwd[i]) \subseteq DOMAIN images
                /\ \A p \in DOMAIN images :
                     (p = StemPng(cwd[i]) \/ \E t \in DOMAIN cwd[i].db.tables : p = TablePng(cwd[i], t))
                        => p \in ImagesDue(cwd[i])

\* A finished run over a per-metric file without points, whose path is returned
\* but no image written, followed by a monthly file with an empty table and a table
\* with points.
C8_Witness ==
    /\ gpc = "done"
    /\ Len(cwd) = 2
    /\ ~IsMonthly(cwd[1]) /\ Len(outs) >= 1 /\ outs[1] = StemPng(cwd[1])
    /\ StemPng(cwd[1]) \notin DOMAIN images
    /\ IsMonthly(cwd[2]) /\ \E t \in DOMAIN cwd[2].db.tables : cwd[2].db.tables[t].rows = <<>>
    /\ \E t \in DOMAIN cwd[2].db.tables : TablePng(cwd[2], t) \in DOMAIN images

\* The gridlines the month of the first point's stored civil date-time calls for.
GridDue(ps) ==
    LET c == CivilFromDays(ps[1].x \div 86400) IN
    { x \in { EpochOf(Civil(c.y, c.mo, d, 0, 0, 0)) : d \in 2..DaysInMonth(c.y, c.mo) } :
        x >= ps[1].x /\ x <= ps[Len(ps)].x }

\* C9: every image has exactly the gridlines of the days 2..L of the month of its
\* first point's stored civil date-time that lie within the span of its points.
C9_GridOfFirstMonth ==
    \A p \in DOMAIN images : images[p].grid.lines = GridDue(images[p].ps)

====
